---- MODULE Spec2Model ----
(***************************************************************************)
(* Model of the prediction service of basic-ml-app: module start-up of     *)
(* app/app.py (database handle, model loading), the conditional_auth       *)
(* dependency, the POST /predict handler, and the service-layer functions  *)
(* services.predict_and_log_intent and db.engine.log_prediction.           *)
(***************************************************************************)
EXTENDS Integers, Sequences, FiniteSets, TLC

\* ------------------------------------------------------------------ bounds
MaxRequests == 2

\* ------------------------------------------------------ values of the model
Modes == {"dev", "prod", "staging"}
\* The texts sent; the r-th call received carries TextOf(r).
Texts == <<"hello dev mode", "wait what?">>
TextOf(r) == Texts[((r - 1) % Len(Texts)) + 1]
ModelNames == <<"confusion", "clair">>
ModelListings == {SubSeq(ModelNames, 1, n) : n \in 0..Len(ModelNames)}

\* Python's None, and the pymongo collection handle
None == [type |-> "NoneType", v |-> 0]
Handle == [type |-> "Collection", v |-> 0]

\* Authorization headers a client may send: absent, a non-bearer scheme,
\* and bearer tokens that are active, inactive and unknown.
NoHeader == [scheme |-> "", token |-> ""]
Headers ==
    { NoHeader,
      [scheme |-> "Basic", token |-> "valid_token"],
      [scheme |-> "Bearer", token |-> "valid_token"],
      [scheme |-> "Bearer", token |-> "old_token"],
      [scheme |-> "Bearer", token |-> "token_falso_que_nao_existe"] }

\* The token collection read by verify_token.
TokenStore ==
    { [token |-> "valid_token", owner |-> "mock_prod_user", active |-> TRUE],
      [token |-> "old_token", owner |-> "old_user", active |-> FALSE] }

VARIABLES
    ENV,              \* app.app.ENV
    mongo_configured, \* MONGO_URI and MONGO_DB are both set
    model_files,      \* the .keras files of intent_classifier/models
    boot,             \* position of the module-level code of app/app.py
    collection,       \* app.app.collection: Handle or None
    MODELS,           \* app.app.MODELS, as the sequence of its keys
    models_failed,    \* the model-loading try block took its except branch
    store,            \* documents of the <ENV>_intent_logs collection
    clock,            \* the server's UTC clock; it advances with every call received
                      \* and with every predict of a classifier
    nreq,             \* number of calls received so far
    req               \* per call: inputs, position, recorded calls, outcome

vars == <<ENV, mongo_configured, model_files, boot, collection, MODELS,
          models_failed, store, clock, nreq, req>>

Requests == 1..MaxRequests

\* ----------------------------------------------------------- Python values
EmptyDict == <<>>

HexChars == <<"0", "1", "2", "3", "4", "5", "6", "7",
              "8", "9", "a", "b", "c", "d", "e", "f">>

RECURSIVE Hex(_)
Hex(n) == IF n < 16 THEN <<HexChars[n + 1]>>
          ELSE Hex(n \div 16) \o <<HexChars[(n % 16) + 1]>>

ObjectId(n) == [type |-> "ObjectId", v |-> n]

\* str(x) for the values the code converts: an ObjectId or None
PyStr(x) ==
    [type |-> "str",
     chars |-> IF x.type = "ObjectId" THEN Hex(x.v) ELSE <<"N", "o", "n", "e">>]

\* d with key k set to v  (d[k] = v)
DictSet(d, k, v) == [x \in DOMAIN d \cup {k} |-> IF x = k THEN v ELSE d[x]]

\* d without key k  (d.pop(k, None))
DictPop(d, k) == [x \in DOMAIN d \ {k} |-> d[x]]

\* ------------------------------------------------------------ collaborators
\* IntentClassifier.predict(text) -> (top_intent, all_probs); probabilities
\* are held in hundredths.
ModelPredict(m, text) ==
    IF m = "confusion"
    THEN IF text = "wait what?"
         THEN [top_intent |-> "confusion",
               all_probs |-> [l \in {"confusion", "none"} |->
                                 IF l = "confusion" THEN 90 ELSE 10]]
         ELSE [top_intent |-> "none",
               all_probs |-> [l \in {"confusion", "none"} |->
                                 IF l = "none" THEN 80 ELSE 20]]
    ELSE [top_intent |-> "mock_intent",
          all_probs |-> [l \in {"mock_intent", "other"} |->
                            IF l = "mock_intent" THEN 90 ELSE 10]]

\* What collection.insert_one may do with a document.
InsertOutcomes == {"ok", "error", "no_id"}

\* collection.insert_one(doc): pymongo adds the generated _id to the very
\* dictionary it is given and returns a result carrying inserted_id; the
\* write may raise; a collaborator that generates no identifier leaves the
\* dictionary alone and has no inserted_id.
InsertOne(st, doc, outcome) ==
    IF outcome = "ok"
    THEN LET oid == ObjectId(Len(st) + 1)
             d == DictSet(doc, "_id", oid)
         IN [raised |-> FALSE, doc |-> d, inserted_id |-> oid,
             store |-> Append(st, d)]
    ELSE [raised |-> (outcome = "error"), doc |-> doc, inserted_id |-> None,
          store |-> st]

\* db.engine.get_mongo_collection: raises ValueError when MONGO_URI or
\* MONGO_DB is unset, otherwise hands out the collection.
get_mongo_collection(configured) ==
    IF configured THEN [raised |-> FALSE, value |-> Handle]
    ELSE [raised |-> TRUE, value |-> None]

\* app.auth.verify_token(request): the bearer token of the Authorization
\* header, looked up among the active tokens.
verify_token(header, store_up) ==
    LET found == {t \in TokenStore : t.token = header.token /\ t.active}
        fail(code, msg, n) ==
            [raised |-> TRUE, http |-> TRUE, status |-> code, detail |-> msg,
             owner |-> "", lookups |-> n]
    IN IF header = NoHeader
       THEN fail(401, "Missing Authorization header", 0)
       ELSE IF header.scheme /= "Bearer"
       THEN fail(401, "Invalid Authorization header", 0)
       ELSE IF ~store_up
       THEN [raised |-> TRUE, http |-> FALSE, status |-> 0,
             detail |-> "token store unreachable", owner |-> "",
             lookups |-> 1]
       ELSE IF found = {}
       THEN fail(403, "Invalid or inactive token", 1)
       ELSE [raised |-> FALSE, http |-> FALSE, status |-> 0, detail |-> "",
             owner |-> (CHOOSE t \in found : TRUE).owner, lookups |-> 1]

\* verify_token was not called
NoVerify ==
    [raised |-> FALSE, http |-> FALSE, status |-> 0, detail |-> "",
     owner |-> "", lookups |-> 0]

\* conditional_auth answering every failure of verify_token alike
conditional_auth_one_rejection(env, header, store_up) ==
    IF env = "dev"
    THEN [ok |-> TRUE, owner |-> "dev_user", status |-> 0, detail |-> "",
          verify_calls |-> 0, verify |-> NoVerify]
    ELSE LET v == verify_token(header, store_up)
         IN IF ~v.raised
            THEN [ok |-> TRUE, owner |-> v.owner, status |-> 0,
                  detail |-> "", verify_calls |-> 1, verify |-> v]
            ELSE [ok |-> FALSE, owner |-> "", status |-> 401,
                  detail |-> "Authentication failed", verify_calls |-> 1,
                  verify |-> v]

\* conditional_auth with a fallback identity in place of the rejection
conditional_auth_fallback_owner(env, header, store_up) ==
    IF env = "dev"
    THEN [ok |-> TRUE, owner |-> "dev_user", status |-> 0, detail |-> "",
          verify_calls |-> 0, verify |-> NoVerify]
    ELSE LET v == verify_token(header, store_up)
         IN [ok |-> TRUE, owner |-> IF v.raised THEN "anonymous" ELSE v.owner,
             status |-> 0, detail |-> "", verify_calls |-> 1, verify |-> v]

\* conditional_auth verifying the token before it looks at the mode
conditional_auth_verify_first(env, header, store_up) ==
    LET v == verify_token(header, store_up)
    IN IF env = "dev"
       THEN [ok |-> TRUE, owner |-> "dev_user", status |-> 0, detail |-> "",
             verify_calls |-> 1, verify |-> v]
       ELSE IF ~v.raised
       THEN [ok |-> TRUE, owner |-> v.owner, status |-> 0,
             detail |-> "", verify_calls |-> 1, verify |-> v]
       ELSE [ok |-> FALSE, owner |-> "",
             status |-> IF v.http THEN v.status ELSE 401,
             detail |-> IF v.http THEN v.detail ELSE "Authentication failed",
             verify_calls |-> 1, verify |-> v]

\* conditional_auth answering an unexpected failure with the text of the
\* exception
conditional_auth_exposes_exception(env, header, store_up) ==
    IF env = "dev"
    THEN [ok |-> TRUE, owner |-> "dev_user", status |-> 0, detail |-> "",
          verify_calls |-> 0, verify |-> NoVerify]
    ELSE LET v == verify_token(header, store_up)
         IN IF ~v.raised
            THEN [ok |-> TRUE, owner |-> v.owner, status |-> 0,
                  detail |-> "", verify_calls |-> 1, verify |-> v]
            ELSE [ok |-> FALSE, owner |-> "",
                  status |-> IF v.http THEN v.status ELSE 401,
                  detail |-> v.detail, verify_calls |-> 1, verify |-> v]

\* ------------------------------------------------------------ app/app.py
\* conditional_auth(request): the owner, or the HTTP error that ends the
\* request; verify_calls counts the invocations of verify_token and verify
\* is what the invocation did.
conditional_auth(env, header, store_up) ==
    IF env = "dev"
    THEN [ok |-> TRUE, owner |-> "dev_user", status |-> 0, detail |-> "",
          verify_calls |-> 0, verify |-> NoVerify]
    ELSE LET v == verify_token(header, store_up)
         IN IF ~v.raised
            THEN [ok |-> TRUE, owner |-> v.owner, status |-> 0,
                  detail |-> "", verify_calls |-> 1, verify |-> v]
            ELSE IF v.http
            THEN [ok |-> FALSE, owner |-> "", status |-> v.status,
                  detail |-> v.detail, verify_calls |-> 1, verify |-> v]
            ELSE [ok |-> FALSE, owner |-> "", status |-> 401,
                  detail |-> "Authentication failed", verify_calls |-> 1,
                  verify |-> v]

\* The loop with the predictions mapping created inside it
RECURSIVE RunModels_last_only(_, _, _, _, _, _)
RunModels_last_only(models, text, bad, i, calls, predictions) ==
    IF i > Len(models)
    THEN [raised |-> FALSE, calls |-> calls, predictions |-> predictions]
    ELSE LET m == models[i]
         IN IF m \in bad
            THEN [raised |-> TRUE,
                  calls |-> Append(calls, [model |-> m, text |-> text,
                                           raised |-> TRUE,
                                           result |-> EmptyDict]),
                  predictions |-> predictions]
            ELSE RunModels_last_only(models, text, bad, i + 1,
                     Append(calls, [model |-> m, text |-> text,
                                    raised |-> FALSE,
                                    result |-> ModelPredict(m, text)]),
                     DictSet(EmptyDict, m, ModelPredict(m, text)))

\* The loop with a failing model caught and skipped
RECURSIVE RunModels_skip_failed(_, _, _, _, _, _)
RunModels_skip_failed(models, text, bad, i, calls, predictions) ==
    IF i > Len(models)
    THEN [raised |-> FALSE, calls |-> calls, predictions |-> predictions]
    ELSE LET m == models[i]
         IN IF m \in bad
            THEN RunModels_skip_failed(models, text, bad, i + 1,
                     Append(calls, [model |-> m, text |-> text,
                                    raised |-> TRUE, result |-> EmptyDict]),
                     predictions)
            ELSE RunModels_skip_failed(models, text, bad, i + 1,
                     Append(calls, [model |-> m, text |-> text,
                                    raised |-> FALSE,
                                    result |-> ModelPredict(m, text)]),
                     DictSet(predictions, m, ModelPredict(m, text)))

\* the loop giving a classifier whose predict raised a second try
RECURSIVE RunModels_retry_failed(_, _, _, _, _, _)
RunModels_retry_failed(models, text, bad, i, calls, predictions) ==
    IF i > Len(models)
    THEN [raised |-> FALSE, calls |-> calls, predictions |-> predictions]
    ELSE LET m == models[i]
             failure == [model |-> m, text |-> text, raised |-> TRUE,
                         result |-> EmptyDict]
         IN IF m \in bad
            THEN [raised |-> TRUE,
                  calls |-> Append(Append(calls, failure), failure),
                  predictions |-> predictions]
            ELSE RunModels_retry_failed(models, text, bad, i + 1,
                     Append(calls, [model |-> m, text |-> text,
                                    raised |-> FALSE,
                                    result |-> ModelPredict(m, text)]),
                     DictSet(predictions, m, ModelPredict(m, text)))

\* The loop over MODELS.items(): models[i..] are invoked in order, a raise
\* of predict leaves the loop; bad is the set of models whose predict raises.
RECURSIVE RunModels(_, _, _, _, _, _)
RunModels(models, text, bad, i, calls, predictions) ==
    IF i > Len(models)
    THEN [raised |-> FALSE, calls |-> calls, predictions |-> predictions]
    ELSE LET m == models[i]
         IN IF m \in bad
            THEN [raised |-> TRUE,
                  calls |-> Append(calls, [model |-> m, text |-> text,
                                           raised |-> TRUE,
                                           result |-> EmptyDict]),
                  predictions |-> predictions]
            ELSE RunModels(models, text, bad, i + 1,
                           Append(calls, [model |-> m, text |-> text,
                                          raised |-> FALSE,
                                          result |-> ModelPredict(m, text)]),
                           DictSet(predictions, m, ModelPredict(m, text)))

\* int(datetime.now(timezone.utc).timestamp()) read after the loop over the
\* models: entered is the clock when the loop began, and every predict that
\* was invoked took one unit of it.
Now(entered, calls) == entered + Len(calls)

\* The framework's answer to an exception that is not an HTTPException.
InternalServerError == [status |-> 500, body |-> [detail |-> "Internal Server Error"]]

\* predict leaving the store's _id in the payload it returns
predict_keeps_native_id(text, owner, models, coll, st, now, bad, ins) ==
    LET run == RunModels(models, text, bad, 1, <<>>, EmptyDict)
        results == [text |-> text, owner |-> owner,
                    predictions |-> run.predictions,
                    timestamp |-> Now(now, run.calls)]
        w == InsertOne(st, results, ins)
    IN IF run.raised \/ coll = None
       THEN [resp |-> InternalServerError, predict_calls |-> run.calls,
             insert_calls |-> 0, inserted_id |-> None, store |-> st]
       ELSE IF w.raised \/ "_id" \notin DOMAIN w.doc
       THEN [resp |-> InternalServerError, predict_calls |-> run.calls,
             insert_calls |-> 1, inserted_id |-> w.inserted_id,
             store |-> w.store]
       ELSE [resp |-> [status |-> 200,
                       body |-> DictSet(w.doc, "id", PyStr(w.doc["_id"]))],
             predict_calls |-> run.calls, insert_calls |-> 1,
             inserted_id |-> w.inserted_id, store |-> w.store]

\* predict reading the clock before the classifiers run
predict_timestamp_first(text, owner, models, coll, st, now, bad, ins) ==
    LET run == RunModels(models, text, bad, 1, <<>>, EmptyDict)
        results == [text |-> text, owner |-> owner,
                    predictions |-> run.predictions, timestamp |-> now]
        w == InsertOne(st, results, ins)
    IN IF run.raised \/ coll = None
       THEN [resp |-> InternalServerError, predict_calls |-> run.calls,
             insert_calls |-> 0, inserted_id |-> None, store |-> st]
       ELSE IF w.raised \/ "_id" \notin DOMAIN w.doc
       THEN [resp |-> InternalServerError, predict_calls |-> run.calls,
             insert_calls |-> 1, inserted_id |-> w.inserted_id,
             store |-> w.store]
       ELSE [resp |-> [status |-> 200,
                       body |-> DictPop(DictSet(w.doc, "id",
                                                PyStr(w.doc["_id"])), "_id")],
             predict_calls |-> run.calls, insert_calls |-> 1,
             inserted_id |-> w.inserted_id, store |-> w.store]

\* predict refusing to work without a loaded model
predict_requires_models(text, owner, models, coll, st, now, bad, ins) ==
    LET run == RunModels(models, text, bad, 1, <<>>, EmptyDict)
        results == [text |-> text, owner |-> owner,
                    predictions |-> run.predictions,
                    timestamp |-> Now(now, run.calls)]
        w == InsertOne(st, results, ins)
    IN IF run.raised \/ coll = None \/ Len(models) = 0
       THEN [resp |-> InternalServerError, predict_calls |-> run.calls,
             insert_calls |-> 0, inserted_id |-> None, store |-> st]
       ELSE IF w.raised \/ "_id" \notin DOMAIN w.doc
       THEN [resp |-> InternalServerError, predict_calls |-> run.calls,
             insert_calls |-> 1, inserted_id |-> w.inserted_id,
             store |-> w.store]
       ELSE [resp |-> [status |-> 200,
                       body |-> DictPop(DictSet(w.doc, "id",
                                                PyStr(w.doc["_id"])), "_id")],
             predict_calls |-> run.calls, insert_calls |-> 1,
             inserted_id |-> w.inserted_id, store |-> w.store]

\* predict with the insert attempted a second time when it raises
predict_retry_insert(text, owner, models, coll, st, now, bad, ins) ==
    LET run == RunModels(models, text, bad, 1, <<>>, EmptyDict)
        results == [text |-> text, owner |-> owner,
                    predictions |-> run.predictions,
                    timestamp |-> Now(now, run.calls)]
        w1 == InsertOne(st, results, ins)
        w == IF w1.raised THEN InsertOne(st, results, "ok") ELSE w1
    IN IF run.raised \/ coll = None
       THEN [resp |-> InternalServerError, predict_calls |-> run.calls,
             insert_calls |-> 0, inserted_id |-> None, store |-> st]
       ELSE IF "_id" \notin DOMAIN w.doc
       THEN [resp |-> InternalServerError, predict_calls |-> run.calls,
             insert_calls |-> 1, inserted_id |-> w.inserted_id,
             store |-> w.store]
       ELSE [resp |-> [status |-> 200,
                       body |-> DictPop(DictSet(w.doc, "id",
                                                PyStr(w.doc["_id"])), "_id")],
             predict_calls |-> run.calls,
             insert_calls |-> IF w1.raised THEN 2 ELSE 1,
             inserted_id |-> w.inserted_id, store |-> w.store]

\* predict answering with the predictions when the write did not succeed
predict_answer_without_write(text, owner, models, coll, st, now, bad, ins) ==
    LET run == RunModels(models, text, bad, 1, <<>>, EmptyDict)
        results == [text |-> text, owner |-> owner,
                    predictions |-> run.predictions,
                    timestamp |-> Now(now, run.calls)]
        w == InsertOne(st, results, ins)
    IN IF run.raised \/ coll = None
       THEN [resp |-> InternalServerError, predict_calls |-> run.calls,
             insert_calls |-> 0, inserted_id |-> None, store |-> st]
       ELSE IF w.raised \/ "_id" \notin DOMAIN w.doc
       THEN [resp |-> [status |-> 200, body |-> results],
             predict_calls |-> run.calls, insert_calls |-> 1,
             inserted_id |-> w.inserted_id, store |-> w.store]
       ELSE [resp |-> [status |-> 200,
                       body |-> DictPop(DictSet(w.doc, "id",
                                                PyStr(w.doc["_id"])), "_id")],
             predict_calls |-> run.calls, insert_calls |-> 1,
             inserted_id |-> w.inserted_id, store |-> w.store]

\* The body of predict(request_data, owner): the response, the calls it
\* made, and the identifier the store generated for its record (None when
\* no write succeeded).
predict(text, owner, models, coll, st, now, bad, ins) ==
    LET run == RunModels(models, text, bad, 1, <<>>, EmptyDict)
        results == [text |-> text, owner |-> owner,
                    predictions |-> run.predictions,
                    timestamp |-> Now(now, run.calls)]
        w == InsertOne(st, results, ins)
    IN IF run.raised
       THEN [resp |-> InternalServerError, predict_calls |-> run.calls,
             insert_calls |-> 0, inserted_id |-> None, store |-> st]
       ELSE IF coll = None
       THEN [resp |-> InternalServerError, predict_calls |-> run.calls,
             insert_calls |-> 0, inserted_id |-> None, store |-> st]
       ELSE IF w.raised \/ "_id" \notin DOMAIN w.doc
       THEN [resp |-> InternalServerError, predict_calls |-> run.calls,
             insert_calls |-> 1, inserted_id |-> w.inserted_id,
             store |-> w.store]
       ELSE [resp |-> [status |-> 200,
                       body |-> DictPop(DictSet(w.doc, "id",
                                                PyStr(w.doc["_id"])), "_id")],
             predict_calls |-> run.calls, insert_calls |-> 1,
             inserted_id |-> w.inserted_id, store |-> w.store]

\* The module-level model loading: the listing of the models folder, then
\* one IntentClassifier per file, inside one try block.  n files load
\* before a constructor raises (n = Len(files): none raises).
LoadModels(files, listdir_ok, n) ==
    IF ~listdir_ok THEN [MODELS |-> <<>>, failed |-> TRUE]
    ELSE [MODELS |-> SubSeq(files, 1, n), failed |-> n < Len(files)]

\* ----------------------------------------------- app/services.py, db/engine.py
\* services.load_all_models(): the whole mapping, or an Exception
load_all_models(files, listdir_ok, n) ==
    IF listdir_ok /\ n = Len(files)
    THEN [raised |-> FALSE, value |-> files]
    ELSE [raised |-> TRUE, value |-> <<>>]

\* A pydantic PredictionResponse and its model_dump(); id is its one
\* optional field, None until a record is stored.
PredictionResponse(text, owner, predictions, timestamp) ==
    [py_type |-> "PredictionResponse",
     fields |-> [text |-> text, owner |-> owner, predictions |-> predictions,
                 timestamp |-> timestamp, id |-> None]]

model_dump(obj, exclude_none) ==
    [py_type |-> "dict",
     fields |-> IF exclude_none
                THEN [k \in {x \in DOMAIN obj.fields :
                                 ~(x = "id" /\ obj.fields[x] = None)}
                         |-> obj.fields[k]]
                ELSE obj.fields]

Raise(exc, calls, st) ==
    [raised |-> TRUE, exc |-> exc, value |-> EmptyDict,
     insert_calls |-> calls, inserted_id |-> None, store |-> st]

\* db.engine.log_prediction(prediction_data)
log_prediction(prediction_data, configured, st, ins) ==
    LET c == get_mongo_collection(configured)
        prediction_dict == model_dump(prediction_data, FALSE).fields
        w == InsertOne(st, prediction_dict, ins)
    IN IF c.raised THEN Raise("ValueError", 0, st)
       ELSE IF prediction_data.py_type = "dict"
       THEN Raise("AttributeError", 0, st)
       ELSE IF w.raised
       THEN Raise("Exception", 1, w.store)
       ELSE [raised |-> FALSE, exc |-> "",
             value |-> DictPop(DictSet(w.doc, "id", PyStr(w.inserted_id)),
                               "_id"),
             insert_calls |-> 1, inserted_id |-> w.inserted_id,
             store |-> w.store]

\* services.predict_and_log_intent(text, owner, models)
predict_and_log_intent(text, owner, models, configured, st, now, bad, ins) ==
    LET run == RunModels(models, text, bad, 1, <<>>, EmptyDict)
        log_document == PredictionResponse(text, owner, run.predictions,
                                           Now(now, run.calls))
        log_dict == model_dump(log_document, TRUE)
        final_result == log_prediction(log_dict, configured, st, ins)
    IN IF run.raised
       THEN [raised |-> TRUE, exc |-> "Exception", value |-> EmptyDict,
             predict_calls |-> run.calls, insert_calls |-> 0,
             inserted_id |-> None, store |-> st]
       ELSE [raised |-> final_result.raised, exc |-> final_result.exc,
             value |-> final_result.value, predict_calls |-> run.calls,
             insert_calls |-> final_result.insert_calls,
             inserted_id |-> final_result.inserted_id,
             store |-> final_result.store]

\* -------------------------------------------------------------- the system
NoResp == [status |-> 0, body |-> EmptyDict]
NoRet == [raised |-> FALSE, exc |-> "", value |-> EmptyDict]
NoArg == [py_type |-> "", fields |-> EmptyDict]

Idle ==
    [kind |-> "", pc |-> "idle", text |-> "", header |-> NoHeader,
     arg |-> NoArg, owner |-> "", models_at_start |-> <<>>,
     verify_calls |-> 0, verify |-> NoVerify, predict_calls |-> <<>>,
     insert_calls |-> 0, inserted_id |-> None, resp |-> NoResp,
     ret |-> NoRet]

Init ==
    /\ ENV \in Modes
    /\ mongo_configured \in BOOLEAN
    /\ model_files \in ModelListings
    /\ boot = "db"
    /\ collection = None
    /\ MODELS = <<>>
    /\ models_failed = FALSE
    /\ store = <<>>
    /\ clock = 0
    /\ nreq = 0
    /\ req = [r \in Requests |-> Idle]

\* app/app.py, "Initialize database connection"
InitDatabase ==
    /\ boot = "db"
    /\ collection' = get_mongo_collection(mongo_configured).value
    /\ boot' = "models"
    /\ UNCHANGED <<ENV, mongo_configured, model_files, MODELS, models_failed,
                   store, clock, nreq, req>>

\* app/app.py, "Load models"; the module is then imported and the
\* application serves (no branch of either try block stops the process).
LoadAllModels ==
    /\ boot = "models"
    /\ \E listdir_ok \in BOOLEAN, n \in 0..Len(model_files) :
          LET l == LoadModels(model_files, listdir_ok, n)
          IN /\ MODELS' = l.MODELS
             /\ models_failed' = l.failed
    /\ boot' = "serving"
    /\ UNCHANGED <<ENV, mongo_configured, model_files, collection, store,
                   clock, nreq, req>>

Static == <<ENV, mongo_configured, model_files, boot, collection, MODELS,
            models_failed>>

\* POST /predict is received and its dependency conditional_auth resolved:
\* the handler body is entered only when the dependency returned an owner.
Authenticate(r) ==
    /\ boot = "serving"
    /\ r = nreq + 1
    /\ r \in Requests
    /\ \E header \in Headers, store_up \in BOOLEAN :
          LET a == conditional_auth(ENV, header, store_up)
              text == TextOf(r)
          IN req' = [req EXCEPT ![r] =
                [@ EXCEPT !.kind = "http", !.text = text, !.header = header,
                          !.models_at_start = MODELS,
                          !.owner = a.owner,
                          !.verify_calls = a.verify_calls,
                          !.verify = a.verify,
                          !.pc = IF a.ok THEN "authed" ELSE "done",
                          !.resp = IF a.ok THEN NoResp
                                   ELSE [status |-> a.status,
                                         body |-> [detail |-> a.detail]]]]
    /\ nreq' = r
    /\ clock' = clock + 1
    /\ UNCHANGED <<Static, store>>

\* the handler body working on the request received last, as it would with
\* the request's text and owner kept in module-level names
Predict_latest_request(r) ==
    /\ r \in Requests
    /\ req[r].kind = "http"
    /\ req[r].pc = "authed"
    /\ \E bad \in SUBSET {MODELS[i] : i \in 1..Len(MODELS)},
          ins \in InsertOutcomes :
          LET h == predict(req[nreq].text, req[nreq].owner, MODELS,
                           collection, store, clock, bad, ins)
          IN /\ req' = [req EXCEPT ![r] =
                   [@ EXCEPT !.pc = "done", !.resp = h.resp,
                             !.predict_calls = h.predict_calls,
                             !.insert_calls = h.insert_calls,
                             !.inserted_id = h.inserted_id]]
             /\ store' = h.store
             /\ clock' = Now(clock, h.predict_calls)
    /\ UNCHANGED <<Static, nreq>>

\* The body of the POST /predict handler.
Predict(r) ==
    /\ r \in Requests
    /\ req[r].kind = "http"
    /\ req[r].pc = "authed"
    /\ \E bad \in SUBSET {MODELS[i] : i \in 1..Len(MODELS)},
          ins \in InsertOutcomes :
          LET h == predict(req[r].text, req[r].owner, MODELS, collection,
                           store, clock, bad, ins)
          IN /\ req' = [req EXCEPT ![r] =
                   [@ EXCEPT !.pc = "done", !.resp = h.resp,
                             !.predict_calls = h.predict_calls,
                             !.insert_calls = h.insert_calls,
                             !.inserted_id = h.inserted_id]]
             /\ store' = h.store
             /\ clock' = Now(clock, h.predict_calls)
    /\ UNCHANGED <<Static, nreq>>

\* services.load_all_models() is called; when it raises there are no models
\* to call the service with.
ServiceLoadModels ==
    /\ boot = "db"
    /\ \E listdir_ok \in BOOLEAN, n \in 0..Len(model_files) :
          LET l == load_all_models(model_files, listdir_ok, n)
          IN /\ MODELS' = l.value
             /\ models_failed' = l.raised
             /\ boot' = IF l.raised THEN "load_error" ELSE "serving"
    /\ UNCHANGED <<ENV, mongo_configured, model_files, collection, store,
                   clock, nreq, req>>

\* A call of services.predict_and_log_intent with the loaded models.
ServiceCall(r) ==
    /\ boot = "serving"
    /\ r = nreq + 1
    /\ r \in Requests
    /\ \E bad \in SUBSET {MODELS[i] : i \in 1..Len(MODELS)},
          ins \in InsertOutcomes :
          LET text == TextOf(r)
              h == predict_and_log_intent(text, "svc_user", MODELS,
                                          mongo_configured, store,
                                          clock + 1, bad, ins)
          IN /\ req' = [req EXCEPT ![r] =
                   [@ EXCEPT !.kind = "service", !.text = text,
                             !.owner = "svc_user",
                             !.models_at_start = MODELS,
                             !.pc = "done",
                             !.predict_calls = h.predict_calls,
                             !.insert_calls = h.insert_calls,
                             !.inserted_id = h.inserted_id,
                             !.ret = [raised |-> h.raised, exc |-> h.exc,
                                      value |-> h.value]]]
             /\ store' = h.store
             /\ clock' = Now(clock + 1, h.predict_calls)
    /\ nreq' = r
    /\ UNCHANGED Static

\* A call of db.engine.log_prediction with a record of its caller's.
LogArgs(text, now) ==
    LET objs == {PredictionResponse(text, "svc_user", p, now) :
                    p \in {EmptyDict,
                           DictSet(EmptyDict, "confusion",
                                   ModelPredict("confusion", text))}}
    IN objs \cup {model_dump(o, TRUE) : o \in objs}

LogCall(r) ==
    /\ boot = "serving"
    /\ r = nreq + 1
    /\ r \in Requests
    /\ \E arg \in LogArgs(TextOf(r), clock + 1), ins \in InsertOutcomes :
          LET h == log_prediction(arg, mongo_configured, store, ins)
          IN /\ req' = [req EXCEPT ![r] =
                   [@ EXCEPT !.kind = "log", !.arg = arg, !.pc = "done",
                             !.text = arg.fields.text,
                             !.owner = arg.fields.owner,
                             !.insert_calls = h.insert_calls,
                             !.inserted_id = h.inserted_id,
                             !.ret = [raised |-> h.raised, exc |-> h.exc,
                                      value |-> h.value]]]
             /\ store' = h.store
    /\ nreq' = r
    /\ clock' = clock + 1
    /\ UNCHANGED Static

\* The application: start-up, then POST /predict requests.
Next ==
    \/ InitDatabase
    \/ LoadAllModels
    \/ \E r \in Requests : Authenticate(r)
    \/ \E r \in Requests : Predict(r)

Spec == Init /\ [][Next]_vars

\* The service layer called directly: models from load_all_models, then
\* calls of predict_and_log_intent and log_prediction.
NextServices ==
    \/ ServiceLoadModels
    \/ \E r \in Requests : ServiceCall(r)
    \/ \E r \in Requests : LogCall(r)

SpecServices == Init /\ [][NextServices]_vars

TypeOK ==
    /\ ENV \in Modes
    /\ boot \in {"db", "models", "serving", "load_error"}
    /\ nreq \in 0..MaxRequests
    /\ \A r \in Requests : req[r].pc \in {"idle", "authed", "done"}

\* ------------------------------------------------------------- properties
Http(r) == req[r].kind = "http"
Answered(r) == Http(r) /\ req[r].pc = "done"
Status(r) == req[r].resp.status
Body(r) == req[r].resp.body
Keys(models) == {models[i] : i \in 1..Len(models)}
Stored == {store[i] : i \in 1..Len(store)}

\* the header carries a bearer token that is among the active tokens
ActiveToken(header) ==
    /\ header.scheme = "Bearer"
    /\ \E t \in TokenStore : t.token = header.token /\ t.active

\* the request reached the handler body: conditional_auth returned an owner
Authorized(r) == Http(r) /\ req[r].pc \in {"authed", "done"} /\ Status(r) \notin {401, 403}

\* C1: in any mode other than "dev", a POST /predict whose token
\* verification fails (no header, malformed header, unknown or inactive
\* token) is rejected by the auth step, and no predict of a classifier and
\* no insert is ever invoked for it.
C1_AuthFailureHasNoSideEffects ==
    \A r \in Requests :
        /\ (Http(r) /\ ENV /= "dev" /\ req[r].verify.raised)
           => /\ req[r].pc = "done"
              /\ Status(r) \in {401, 403}
              /\ req[r].predict_calls = <<>>
              /\ req[r].insert_calls = 0
              /\ req[r].inserted_id = None
        /\ (Http(r) /\ ENV /= "dev"
              /\ (req[r].predict_calls /= <<>> \/ req[r].insert_calls > 0))
           => /\ req[r].verify_calls = 1
              /\ ~req[r].verify.raised
              /\ req[r].owner = req[r].verify.owner

C1_Witness ==
    /\ ENV /= "dev"
    /\ collection = Handle
    /\ Len(MODELS) > 0
    /\ \E r \in Requests :
          /\ Answered(r)
          /\ req[r].header.token = "old_token"
          /\ req[r].verify.raised
          /\ Status(r) = 403
    /\ \E r \in Requests : Answered(r) /\ Status(r) = 200

\* C2: in mode "dev", POST /predict never invokes verify_token, and the
\* owner of the response and of the persisted record is "dev_user",
\* with or without an Authorization header.
C2_DevModeSkipsVerification ==
    ENV = "dev" =>
        \A r \in Requests :
            Http(r) =>
               /\ req[r].verify_calls = 0
               /\ req[r].verify = NoVerify
               /\ req[r].owner = "dev_user"
               /\ Status(r) \notin {401, 403}
               /\ Status(r) = 200 =>
                     /\ Body(r).owner = "dev_user"
                     /\ \E d \in Stored :
                           /\ PyStr(d["_id"]) = Body(r).id
                           /\ d.owner = "dev_user"

C2_Witness ==
    /\ ENV = "dev"
    /\ \E r \in Requests :
          Answered(r) /\ Status(r) = 200 /\ req[r].header = NoHeader
    /\ \E r \in Requests :
          Answered(r) /\ Status(r) = 200 /\ req[r].header.scheme = "Bearer"

\* C3: every POST /predict answered 200 invoked the insert exactly once,
\* whatever the number of loaded classifiers, and the collection holds one
\* document per 200 response.
C3_OneInsertPerSuccess ==
    /\ \A r \in Requests :
          (Http(r) /\ Status(r) = 200) => req[r].insert_calls = 1
    /\ Len(store) = Cardinality({r \in Requests : Http(r) /\ Status(r) = 200})

C3_Witness ==
    /\ Len(MODELS) = 2
    /\ \A r \in Requests : Answered(r) /\ Status(r) = 200

\* a predict of a classifier raised during the request
ClassifierRaised(r) ==
    \E i \in 1..Len(req[r].predict_calls) : req[r].predict_calls[i].raised

\* C4: when the predict of any loaded classifier raises during an
\* authorized POST /predict, the answer is 500 and the insert is never
\* invoked; no stored document holds a partial set of predictions.
C4_ClassifierFailureFailsFast ==
    /\ \A r \in Requests :
          (Http(r) /\ ClassifierRaised(r))
          => /\ req[r].pc = "done"
             /\ Status(r) = 500
             /\ req[r].insert_calls = 0
             /\ req[r].inserted_id = None
             /\ "predictions" \notin DOMAIN Body(r)
    /\ \A d \in Stored : DOMAIN d.predictions = Keys(MODELS)

C4_Witness ==
    /\ collection = Handle
    /\ \E r \in Requests :
          /\ Answered(r)
          /\ Len(req[r].predict_calls) = 2
          /\ ~req[r].predict_calls[1].raised
          /\ req[r].predict_calls[2].raised
    /\ \E r \in Requests :
          /\ Answered(r)
          /\ Len(req[r].predict_calls) = 1
          /\ req[r].predict_calls[1].raised

\* C5: a POST /predict response carries an id exactly when the write of its
\* record succeeded: a 200 response has a non-empty id, that of a stored
\* document equal to the response; a request whose record was stored is
\* answered 200 with that id; any other answer has neither id nor record.
C5_IdIffPersisted ==
    \A r \in Requests :
        Answered(r) =>
           /\ Status(r) = 200 =>
                 /\ "id" \in DOMAIN Body(r)
                 /\ Body(r).id.chars /= <<>>
                 /\ req[r].inserted_id /= None
                 /\ Body(r).id = PyStr(req[r].inserted_id)
                 /\ \E d \in Stored :
                       /\ d["_id"] = req[r].inserted_id
                       /\ DictPop(d, "_id") = DictPop(Body(r), "id")
           /\ req[r].inserted_id /= None => Status(r) = 200
           /\ Status(r) /= 200 => DOMAIN Body(r) = {"detail"}

C5_Witness ==
    /\ \E r \in Requests : Answered(r) /\ Status(r) = 200
    /\ \E r \in Requests :
          Answered(r) /\ Status(r) = 500 /\ req[r].insert_calls = 1

\* C6: with an empty classifier mapping an authorized POST /predict invokes
\* no classifier and still attempts exactly one write; when the store
\* accepts the write the answer is 200 with predictions = {} and the stored
\* record has predictions = {}; the request fails only when the write does.
C6_EmptyMappingIsNoError ==
    \A r \in Requests :
        (Answered(r) /\ Authorized(r) /\ req[r].models_at_start = <<>>)
        => /\ req[r].predict_calls = <<>>
           /\ collection = Handle => req[r].insert_calls = 1
           /\ \/ /\ Status(r) = 200
                 /\ Body(r).predictions = EmptyDict
                 /\ req[r].insert_calls = 1
                 /\ \E d \in Stored :
                       /\ d["_id"] = req[r].inserted_id
                       /\ d.predictions = EmptyDict
              \/ /\ Status(r) = 500
                 /\ req[r].inserted_id = None

C6_Witness ==
    /\ MODELS = <<>>
    /\ \E r \in Requests :
          /\ Answered(r)
          /\ Status(r) = 200
          /\ Body(r).predictions = EmptyDict
          /\ Len(store) >= 1

\* C7: in any mode other than "dev", POST /predict without an Authorization
\* header is answered 401, with a bearer token that the lookup does not
\* find among the active tokens 403, and an HTTP error raised by
\* verify_token reaches the caller with its status and detail unchanged.
C7_MissingIs401InvalidIs403 ==
    ENV /= "dev" =>
        \A r \in Requests :
            Http(r) =>
               /\ req[r].header = NoHeader =>
                     /\ req[r].pc = "done"
                     /\ Status(r) = 401
               /\ (/\ req[r].header.scheme = "Bearer"
                   /\ ~ActiveToken(req[r].header)
                   /\ req[r].verify.http) =>
                     /\ req[r].pc = "done"
                     /\ Status(r) = 403
               /\ (req[r].verify.raised /\ req[r].verify.http) =>
                     /\ Status(r) = req[r].verify.status
                     /\ Body(r) = [detail |-> req[r].verify.detail]

C7_Witness ==
    /\ ENV /= "dev"
    /\ \E r \in Requests :
          /\ Answered(r)
          /\ req[r].header = NoHeader
          /\ Status(r) = 401
    /\ \E r \in Requests :
          /\ Answered(r)
          /\ req[r].header.token = "token_falso_que_nao_existe"
          /\ Status(r) = 403

\* the record returned carries an id that is the identifier of a stored
\* document
ConfirmedId(doc) ==
    /\ "id" \in DOMAIN doc
    /\ \E d \in Stored : PyStr(d["_id"]) = doc.id

C9_NoServingAfterStartupFailure ==
    (collection = None \/ models_failed) =>
        \A r \in Requests :
            /\ req[r].predict_calls = <<>>
            /\ Status(r) /= 200

\* C10: in every 200 answer the keys of predictions, in the response and
\* in the stored record, are exactly the keys of the classifier mapping at
\* the start of the request, each classifier was invoked once on the
\* request text, and each entry holds the top label and the probabilities
\* that invocation returned.
C10_PredictionsCoverSnapshot ==
    \A r \in Requests :
        (Http(r) /\ Status(r) = 200) =>
           /\ DOMAIN Body(r).predictions = Keys(req[r].models_at_start)
           /\ Len(req[r].predict_calls) = Len(req[r].models_at_start)
           /\ \E d \in Stored :
                 /\ d["_id"] = req[r].inserted_id
                 /\ d.predictions = Body(r).predictions
           /\ \A m \in Keys(req[r].models_at_start) :
                 \E i \in 1..Len(req[r].predict_calls) :
                    LET call == req[r].predict_calls[i]
                    IN /\ call.model = m
                       /\ call.text = req[r].text
                       /\ ~call.raised
                       /\ Body(r).predictions[m] =
                             [top_intent |-> call.result.top_intent,
                              all_probs |-> call.result.all_probs]

C10_Witness ==
    /\ Len(MODELS) = 2
    /\ \E r \in Requests :
          /\ Answered(r)
          /\ Status(r) = 200
          /\ DOMAIN Body(r).predictions = {"confusion", "clair"}
          /\ req[r].text = "wait what?"

\* the fields of the payload a caller receives
PayloadKeys == {"text", "owner", "predictions", "timestamp", "id"}

\* C11: the id of a successful payload is the string form of the identifier
\* the insert generated for that request's own record; the payload has no
\* _id field and its id is a string, and no other request is given the
\* same id.
C11_IdIsStringOfGeneratedId ==
    \A r \in Requests :
        /\ (Http(r) /\ Status(r) = 200) =>
              /\ DOMAIN Body(r) = PayloadKeys
              /\ Body(r).id.type = "str"
              /\ req[r].inserted_id.type = "ObjectId"
              /\ Body(r).id = PyStr(req[r].inserted_id)
              /\ \E d \in Stored :
                    /\ d["_id"] = req[r].inserted_id
                    /\ d.text = req[r].text
                    /\ d.owner = req[r].owner
              /\ \A q \in Requests \ {r} :
                    (Http(q) /\ Status(q) = 200) => Body(q).id /= Body(r).id
        /\ (~Http(r) /\ req[r].pc = "done" /\ ~req[r].ret.raised
              /\ req[r].inserted_id /= None) =>
              /\ DOMAIN req[r].ret.value = PayloadKeys
              /\ req[r].ret.value.id = PyStr(req[r].inserted_id)

C11_Witness ==
    /\ \A r \in Requests : Answered(r) /\ Status(r) = 200
    /\ Body(1).id.chars = <<"1">>
    /\ Body(2).id.chars = <<"2">>

\* the stored documents carrying the identifier handed to request r
RecordsOf(r) ==
    {i \in 1..Len(store) : store[i]["_id"] = req[r].inserted_id}

\* the handler failed with a request of its own in hand
Failed(r) == Http(r) /\ Answered(r) /\ Status(r) = 500

\* C12: under any interleaving of POST /predict requests, a handler step
\* changes no other request and no stored record; a step in which a request
\* fails leaves every other request in flight as it was, still in flight,
\* and leaves the classifiers and the collection they will use; each
\* request answered 200 has exactly one stored record, with its own text,
\* owner and predictions.
C12_RequestsAreIsolated ==
    /\ [](\A r \in Requests :
            /\ (Http(r) /\ Status(r) = 200) =>
                  /\ Cardinality(RecordsOf(r)) = 1
                  /\ \A i \in RecordsOf(r) :
                        /\ store[i].text = req[r].text
                        /\ store[i].owner = req[r].owner
                        /\ store[i].predictions = Body(r).predictions
                  /\ \A i \in 1..Len(req[r].predict_calls) :
                        /\ req[r].predict_calls[i].text = req[r].text
                        /\ Body(r).predictions[req[r].predict_calls[i].model]
                              = req[r].predict_calls[i].result
                  /\ \A q \in Requests \ {r} : RecordsOf(q) /= RecordsOf(r))
    /\ [][\A r \in Requests :
            /\ req[r].pc = "done" => req'[r] = req[r]
            /\ (req[r].pc = "authed" /\ req'[r] /= req[r]) =>
                  \A q \in Requests \ {r} : req'[q] = req[q]
            /\ (req[r].pc = "authed" /\ Failed(r)') =>
                  /\ \A q \in Requests \ {r} :
                        req[q].pc = "authed" => req'[q].pc = "authed"
                  /\ <<MODELS, collection, boot>>' = <<MODELS, collection, boot>>
            /\ Len(store') >= Len(store)
            /\ \A i \in 1..Len(store) : store'[i] = store[i]]_vars

\* a classifier failed in the second request while the first, received
\* before it and already authorized, is still in flight
C12_Witness ==
    /\ Failed(2) /\ req[2].insert_calls = 0 /\ ClassifierRaised(2)
    /\ Http(1) /\ req[1].pc = "authed"
    /\ req[1].header /= req[2].header
    /\ ENABLED Predict(1)

\* the requests whose insert put a record into the store
Writers == {r \in Requests : req[r].inserted_id /= None}

\* C13: whatever the outcome of a request, insert_one was invoked at most
\* once for it and the predict of each classifier loaded at its start at
\* most once, and the store holds one record per request whose insert
\* generated an identifier, never two.
C13_NoRetries ==
    /\ \A r \in Requests :
          /\ req[r].insert_calls <= 1
          /\ \A i, j \in 1..Len(req[r].predict_calls) :
                (req[r].predict_calls[i].model = req[r].predict_calls[j].model)
                    => i = j
          /\ \A i \in 1..Len(req[r].predict_calls) :
                req[r].predict_calls[i].model \in Keys(req[r].models_at_start)
          /\ req[r].inserted_id /= None => req[r].insert_calls = 1
    /\ Len(store) = Cardinality(Writers)
    /\ \A i, j \in 1..Len(store) : store[i]["_id"] = store[j]["_id"] => i = j

\* a request that failed after its insert was invoked and one whose second
\* classifier raised
C13_Witness ==
    /\ Failed(1) /\ req[1].insert_calls = 1 /\ Len(req[1].predict_calls) = 2
    /\ Failed(2) /\ req[2].insert_calls = 0 /\ Len(req[2].predict_calls) = 2
    /\ ClassifierRaised(2)

\* the identity the auth step resolves for request r
ResolvedOwner(r) ==
    IF ENV = "dev" THEN "dev_user" ELSE req[r].verify.owner

\* C14: every stored record and every 200 payload has the text of its
\* request unchanged and the owner the auth step resolved for it (in a
\* mode other than dev the owner its one verify_token returned); the
\* payload and
\* the stored record agree on text, owner, predictions and timestamp; and
\* the timestamp is the server clock at the end of the handler step, after
\* the classifiers ran: later than the clock at which the handler was
\* entered whenever a classifier ran.
C14_FieldsComeFromRequestAuthAndClock ==
    /\ [](/\ \A r \in Requests :
               (Http(r) /\ Status(r) = 200) =>
                  /\ Body(r).text = TextOf(r)
                  /\ Body(r).owner = ResolvedOwner(r)
                  /\ ENV /= "dev" =>
                        /\ req[r].verify_calls = 1
                        /\ ~req[r].verify.raised
                  /\ \A i \in RecordsOf(r) :
                        /\ store[i].text = Body(r).text
                        /\ store[i].owner = Body(r).owner
                        /\ store[i].predictions = Body(r).predictions
                        /\ store[i].timestamp = Body(r).timestamp
          /\ \A i \in 1..Len(store) :
                \E r \in Requests :
                    /\ Http(r) /\ Status(r) = 200
                    /\ i \in RecordsOf(r))
    /\ [][\A r \in Requests :
            (req[r].pc = "authed" /\ Status(r)' = 200) =>
                /\ Body(r)'.timestamp = clock'
                /\ Body(r)'.timestamp = clock + Len(req'[r].predict_calls)
                /\ store'[Len(store')].timestamp = clock']_vars

\* a request answered 200 in a mode other than dev after its two
\* classifiers ran, handled after a later request had been received
C14_Witness ==
    /\ ENV /= "dev"
    /\ Http(1) /\ Status(1) = 200
    /\ Len(req[1].predict_calls) = 2
    /\ Body(1).owner = "mock_prod_user"
    /\ Body(1).timestamp = 4
    /\ nreq = 2

\* a call of services.predict_and_log_intent that has ended
ServiceDone(r) == req[r].kind = "service" /\ req[r].pc = "done"

\* C15: a call of predict_and_log_intent in which every classifier
\* succeeds, with the database configured, invokes the insert exactly once,
\* and when the store accepted the write it returns the formatted record
\* with the generated id.
C15_ServiceLogsOnceAndReturnsId ==
    \A r \in Requests :
        (ServiceDone(r) /\ ~ClassifierRaised(r) /\ mongo_configured) =>
            /\ req[r].insert_calls = 1
            /\ req[r].inserted_id /= None =>
                  /\ ~req[r].ret.raised
                  /\ req[r].ret.value.text = req[r].text
                  /\ req[r].ret.value.owner = req[r].owner
                  /\ req[r].ret.value.id = PyStr(req[r].inserted_id)

\* verify_token raised something that is not an HTTPException
UnexpectedAuthError(r) ==
    /\ Http(r) /\ ENV /= "dev"
    /\ req[r].verify.raised /\ ~req[r].verify.http

\* C16: in a mode other than dev, a request whose verify_token raised an
\* error that is not an HTTP error is answered 401 with the body
\* {"detail": "Authentication failed"}, which does not hold the text of the
\* exception, and no predict of a classifier and no insert is invoked for
\* it.
C16_UnexpectedAuthErrorIsOpaque401 ==
    \A r \in Requests :
        UnexpectedAuthError(r) =>
            /\ Answered(r)
            /\ Status(r) = 401
            /\ Body(r) = [detail |-> "Authentication failed"]
            /\ Body(r).detail /= req[r].verify.detail
            /\ req[r].verify_calls = 1
            /\ req[r].predict_calls = <<>>
            /\ req[r].insert_calls = 0
            /\ req[r].inserted_id = None

\* the token store was unreachable for a request with a bearer token, with
\* classifiers loaded and another request served
C16_Witness ==
    /\ UnexpectedAuthError(1) /\ Answered(1)
    /\ req[1].verify.detail = "token store unreachable"
    /\ MODELS /= <<>>
    /\ Http(2) /\ Status(2) = 200
    /\ Len(store) = 1

====
